---------------------------- MODULE Spec2Model ----------------------------
(***************************************************************************)
(* Model of board/variscite/common/imx9_eeprom.c: the DDR adjustment       *)
(* engine (var_eeprom_adjust_dram / adjust_dram_table), the DRAM size      *)
(* accessor (var_eeprom_get_dram_size) and the carrier EEPROM validator    *)
(* (var_carrier_eeprom_is_valid / var_carrier_eeprom_get_revision).        *)
(*                                                                         *)
(* C arrays are functions over 0..n-1 so that indices are the source's.    *)
(* The target is the little-endian AArch64 i.MX9.                          *)
(***************************************************************************)
EXTENDS Integers, Sequences, FiniteSets, TLC

VARIABLES
    pc,              \* position of the running operation
    ep,              \* struct var_eeprom (primary record) as read at boot
    cfg,             \* the five base tables of struct dram_timing_info
    fsp,             \* fsp_msg[0].drate, fsp_msg[1].drate, fsp_table[0]
    adj_table_size,  \* u16 adj_table_size[DRAM_TABLE_NUM] of var_eeprom_adjust_dram
    ti,              \* i of the loop over mx9_adjust_table
    a_off,           \* u8 off of adjust_dram_table
    a_size,          \* u8 adj_table_size parameter of adjust_dram_table
    t_size,          \* u8 table_size parameter of adjust_dram_table
    i_row,           \* int i of adjust_dram_table
    j,               \* int j of adjust_dram_table: the merge cursor
    adj_table_row,   \* struct dram_cfg_param adj_table_row (the row buffer)
    eeprom,          \* rows of the identity memory read so far, by offset
    reads,           \* the adjustment-row bus reads issued, in order
    failures,        \* failed row reads so far
    dev_present,     \* whether var_eeprom_get_dev finds the identity memory
    dram_size,       \* *size of var_eeprom_get_dram_size (phys_size_t)
    size_ret,        \* return value of var_eeprom_get_dram_size
    cep,             \* struct var_carrier_eeprom (secondary record), as bytes
    crc_calc,        \* u32 crc of var_carrier_eeprom_is_valid
    valid_ret,       \* return value of var_carrier_eeprom_is_valid
    checks,          \* the checks var_carrier_eeprom_is_valid evaluated, in order
    rev,             \* the size bytes var_carrier_eeprom_get_revision wrote to rev
    rev_size         \* size argument of var_carrier_eeprom_get_revision

dvars == <<cfg, fsp, adj_table_size, ti, a_off, a_size, t_size,
           i_row, j, adj_table_row, eeprom, reads, failures, dev_present>>

svars == <<dram_size, size_ret>>

cvars == <<cep, crc_calc, valid_ret, checks, rev, rev_size>>

vars == <<pc, ep, dvars, svars, cvars>>

----------------------------------------------------------------------------
(* Bounds of the model *)

\* adjustment rows of one run, over all tables
MaxTotalRows == 3

\* failing row reads of one run
MaxBusFailures == 1

----------------------------------------------------------------------------
(* Program constants and types *)

DRAM_TABLE_NUM == 5

\* sizeof(struct dram_cfg_param): two 32-bit words
RowSize == 8

U8(x) == x % 256

U16(x) == x % 65536

\* C integer division truncates toward zero
CDiv(a, b) == IF a >= 0 THEN a \div b ELSE -((-a) \div b)

var_eeprom_is_valid(e) == e.trusted

----------------------------------------------------------------------------
(* Inputs *)

\* cfg_num of the five tables of mx9_adjust_table (unsigned int)
CfgNum == <<3, 257, 2, 2, 2>>

BaseReg(t, idx) == 1000 * (t + 1) + idx

BaseVal == 7

DefaultDrate == 3733

DefaultFsp ==
    [drate0 |-> DefaultDrate, drate1 |-> DefaultDrate, fsp_table0 |-> DefaultDrate]

BaseTables ==
    [t \in 0..(DRAM_TABLE_NUM - 1) |->
        [idx \in 0..(CfgNum[t + 1] - 1) |-> [reg |-> BaseReg(t, idx), val |-> BaseVal]]]

StartOffsets == {216}

\* off[]: a start offset, then per table either the terminator 0 (and zeros
\* after it) or the end of a table of rows
RECURSIVE OffSeqsFrom(_, _, _)
OffSeqsFrom(last, left, budget) ==
    IF left = 0 THEN {<<>>}
    ELSE {[k \in 1..left |-> 0]}
         \cup UNION {{<<last + RowSize * n>> \o rest :
                          rest \in OffSeqsFrom(last + RowSize * n, left - 1, budget - n)} :
                     n \in 0..budget}

OffTables ==
    UNION {{<<s>> \o rest : rest \in OffSeqsFrom(s, DRAM_TABLE_NUM, MaxTotalRows)} :
           s \in StartOffsets}

\* ep->off[i], i counted from 0 as in the source
Off(e, i) == e.off[i + 1]

Versions == {0, 1, 2}

\* register addresses an adjustment row stored for table t may carry
RowRegs(t) == {BaseReg(t, 0), BaseReg(t, CfgNum[t + 1] - 1), 9999}

\* the row stored at an offset of the identity memory
RowVal(o) == 10000 + o

\* what a never-written adj_table_size[i] may hold
GarbageSizes == {0, 1}

Uninit == [reg |-> -1, val |-> -1]

\* what an uninitialised row buffer may hold for table t
GarbageRows(t) == {[reg |-> r, val |-> 4242] : r \in RowRegs(t)}

----------------------------------------------------------------------------
(* adjust_dram_table *)

\* a scan that steps past the entry it matched (j++ before the break)
RECURSIVE ScanFromAdvance(_, _, _, _)
ScanFromAdvance(table, tsize, jj, reg) ==
    IF jj < tsize
    THEN IF table[jj].reg = reg
         THEN [j |-> jj + 1, hit |-> TRUE]
         ELSE ScanFromAdvance(table, tsize, jj + 1, reg)
    ELSE [j |-> jj, hit |-> FALSE]

\* for (; j < table_size; j++) if (table[j].reg == adj_table_row.reg) break;
RECURSIVE ScanFrom(_, _, _, _)
ScanFrom(table, tsize, jj, reg) ==
    IF jj < tsize
    THEN IF table[jj].reg = reg
         THEN [j |-> jj, hit |-> TRUE]
         ELSE ScanFrom(table, tsize, jj + 1, reg)
    ELSE [j |-> jj, hit |-> FALSE]

\* table[j].val = adj_table_row.val
Patch(table, s, row) ==
    IF s.hit THEN [table EXCEPT ![s.j].val = row.val] ELSE table

\* u8 narrowing of the arguments at the call in var_eeprom_adjust_dram
ArgOffset(e, i) == U8(Off(e, i))

ArgSize(sizes, i) == U8(sizes[i])

ArgTableSize(i) == U8(CfgNum[i + 1])

\* off += sizeof(adj_table_row) on a u8
NextOff(o) == U8(o + RowSize)

----------------------------------------------------------------------------
(* var_eeprom_adjust_dram *)

\* the number of sizes the size loop computes: it stops at the first
\* i with ep->off[i + 1] == 0
RECURSIVE NumComputed(_, _)
NumComputed(e, i) ==
    IF i < DRAM_TABLE_NUM /\ Off(e, i + 1) /= 0 THEN NumComputed(e, i + 1) ELSE i

ComputedSize(e, i) == U16(CDiv(Off(e, i + 1) - Off(e, i), RowSize))

Total(sizes) ==
    LET RECURSIVE Sum(_)
        Sum(i) == IF i = DRAM_TABLE_NUM THEN 0 ELSE ArgSize(sizes, i) + Sum(i + 1)
    IN Sum(0)

\* adj_table_size[] after the size loop: the entries the loop did not reach
\* keep whatever the stack held
SizeArrays(e) ==
    LET n == NumComputed(e, 0)
        all == {[i \in 0..(DRAM_TABLE_NUM - 1) |->
                    IF i < n THEN ComputedSize(e, i) ELSE g[i]] :
                g \in [0..(DRAM_TABLE_NUM - 1) -> GarbageSizes]}
    IN {s \in all : Total(s) <= MaxTotalRows}

\* a version gate that lets version 1 through
EarlyReturnBelowOne(e) == ~var_eeprom_is_valid(e) \/ e.version < 1

\* lines 198-205
EarlyReturn(e) == ~var_eeprom_is_valid(e) \/ e.version < 2

EngineIdle ==
    /\ cfg = BaseTables
    /\ fsp = DefaultFsp
    /\ adj_table_size = [i \in 0..(DRAM_TABLE_NUM - 1) |-> 0]
    /\ ti = 0
    /\ a_off = 0
    /\ a_size = 0
    /\ t_size = 0
    /\ i_row = 0
    /\ j = 0
    /\ adj_table_row = Uninit
    /\ eeprom = << >>
    /\ reads = << >>
    /\ failures = 0

\* lines 198-214: the two guards, then the size loop
EnterAdjust ==
    /\ pc = "start"
    /\ IF EarlyReturn(ep)
       THEN /\ pc' = "done"
            /\ UNCHANGED adj_table_size
       ELSE /\ pc' = "call"
            /\ adj_table_size' \in SizeArrays(ep)
    /\ UNCHANGED <<ep, cfg, fsp, ti, a_off, a_size, t_size, i_row, j,
                   adj_table_row, eeprom, reads, failures, dev_present, svars, cvars>>

\* lines 221-226 and 144-155: the call for table ti, up to var_eeprom_get_dev
CallAdjustTable ==
    /\ pc = "call"
    /\ ti < DRAM_TABLE_NUM
    /\ a_off' = ArgOffset(ep, ti)
    /\ a_size' = ArgSize(adj_table_size, ti)
    /\ t_size' = ArgTableSize(ti)
    /\ i_row' = 0
    /\ j' = 0
    /\ adj_table_row' = Uninit
    /\ IF dev_present
       THEN pc' = "row" /\ ti' = ti
       ELSE pc' = "call" /\ ti' = ti + 1
    /\ UNCHANGED <<ep, cfg, fsp, adj_table_size, eeprom, reads, failures, dev_present,
                   svars, cvars>>

\* the row the bus delivers at offset o: what the memory holds there
StoredRows(o, t) ==
    IF o \in DOMAIN eeprom THEN {eeprom[o]}
    ELSE {[reg |-> r, val |-> RowVal(o)] : r \in RowRegs(t)}

Remember(o, row) ==
    IF o \in DOMAIN eeprom THEN eeprom ELSE (o :> row) @@ eeprom

\* a merge whose scan restarts at index 0 for every row (for (j = 0; ...))
MergeRowRescan(row) ==
    LET s == ScanFrom(cfg[ti], t_size, 0, row.reg)
    IN /\ j' = s.j
       /\ cfg' = [cfg EXCEPT ![ti] = Patch(cfg[ti], s, row)]

\* lines 164-171 for the row in the buffer
MergeRow(row) ==
    LET s == ScanFrom(cfg[ti], t_size, j, row.reg)
    IN /\ j' = s.j
       /\ cfg' = [cfg EXCEPT ![ti] = Patch(cfg[ti], s, row)]

\* lines 158-174: one iteration of the loop over the adjustment table
ProcessRow ==
    /\ pc = "row"
    /\ i_row < a_size
    /\ \/ \E row \in StoredRows(a_off, ti) :
             /\ adj_table_row' = row
             /\ eeprom' = Remember(a_off, row)
             /\ reads' = Append(reads, [tbl |-> ti, off |-> a_off, ok |-> TRUE])
             /\ MergeRow(row)
             /\ UNCHANGED failures
       \/ /\ failures < MaxBusFailures
          /\ failures' = failures + 1
          /\ reads' = Append(reads, [tbl |-> ti, off |-> a_off, ok |-> FALSE])
          /\ \E row \in (IF adj_table_row = Uninit
                          THEN GarbageRows(ti) ELSE {adj_table_row}) :
                /\ adj_table_row' = row
                /\ MergeRow(row)
          /\ UNCHANGED eeprom
    /\ a_off' = NextOff(a_off)
    /\ i_row' = i_row + 1
    /\ UNCHANGED <<pc, ep, fsp, adj_table_size, ti, a_size, t_size, dev_present,
                   svars, cvars>>

\* line 158 with i == adj_table_size: adjust_dram_table returns
ReturnFromTable ==
    /\ pc = "row"
    /\ i_row >= a_size
    /\ ti' = ti + 1
    /\ pc' = "call"
    /\ UNCHANGED <<ep, cfg, fsp, adj_table_size, a_off, a_size, t_size, i_row, j,
                   adj_table_row, eeprom, reads, failures, dev_present, svars, cvars>>

\* lines 229-233, reached when mx9_adjust_table[i].name == NULL
AdjustFsp ==
    /\ pc = "call"
    /\ ti = DRAM_TABLE_NUM
    /\ fsp' = [drate0 |-> ep.fsp_drate, drate1 |-> ep.fsp_drate,
               fsp_table0 |-> ep.fsp_drate]
    /\ pc' = "done"
    /\ UNCHANGED <<ep, cfg, adj_table_size, ti, a_off, a_size, t_size, i_row, j,
                   adj_table_row, eeprom, reads, failures, dev_present, svars, cvars>>

----------------------------------------------------------------------------
(* var_eeprom_get_dram_size *)

\* 64-bit values are kept as 16-bit limbs, least significant first
Limb == 2 ^ 16

\* unsigned long on AArch64: 64 bits
ULongLimbs == 4

\* an int below 2^31 converted to an unsigned long of n limbs
ToULong(x, n) == [k \in 0..(n - 1) |-> IF k = 0 THEN x % Limb
                                        ELSE IF k = 1 THEN x \div Limb ELSE 0]

LimbAt(v, k) == IF k \in DOMAIN v THEN v[k] ELSE 0

\* v << 20 within the width of v: one limb up, then four bits
Shl20(v) ==
    [k \in DOMAIN v |->
        ((LimbAt(v, k - 1) * 16) % Limb) + (LimbAt(v, k - 2) \div (2 ^ 12))]

\* the assignment to phys_size_t (64 bits) zero-extends
ToPhysSize(v) == [k \in 0..3 |-> LimbAt(v, k)]

\* (ep->dramsize * 128UL) << 20 with an unsigned long of 32 bits (two limbs)
DramSizeOf32(e) == ToPhysSize(Shl20(ToULong(e.dramsize * 128, ULongLimbs - 2)))

\* line 83: (ep->dramsize * 128UL) << 20
DramSizeOf(e) == ToPhysSize(Shl20(ToULong(e.dramsize * 128, ULongLimbs)))

\* the board's default capacity, in MiB
DEFAULT_SDRAM_MIB == 2048

DEFAULT_SDRAM_SIZE == ToPhysSize(Shl20(ToULong(DEFAULT_SDRAM_MIB, ULongLimbs)))

Unset == "unset"

SizeIdle ==
    /\ dram_size = Unset
    /\ size_ret = Unset

\* lines 75-85
GetDramSize ==
    /\ pc = "start"
    /\ dram_size' = IF ~var_eeprom_is_valid(ep) THEN DEFAULT_SDRAM_SIZE ELSE DramSizeOf(ep)
    /\ size_ret' = 0
    /\ pc' = "size_done"
    /\ UNCHANGED <<ep, dvars, cvars>>

----------------------------------------------------------------------------
(* var_carrier_eeprom_is_valid, var_carrier_eeprom_get_revision *)

VAR_CARRIER_EEPROM_MAGIC == 22083   \* 0x5643, "VC"

CARRIER_REV_LEN == 16

\* a 32-bit value is kept as its two 16-bit halves
RECURSIVE Xor(_, _, _)
Xor(a, b, bits) ==
    IF bits = 0 THEN 0
    ELSE ((a + b) % 2) + 2 * Xor(a \div 2, b \div 2, bits - 1)

\* one bit of the reflected CRC-32: c = (c >> 1) ^ (c & 1 ? 0xEDB88320 : 0)
CrcShift(c) ==
    LET hi == c.hi \div 2
        lo == (c.lo \div 2) + (c.hi % 2) * (2 ^ 15)
    IN IF c.lo % 2 = 1
       THEN [hi |-> Xor(hi, 60856, 16), lo |-> Xor(lo, 33568, 16)]
       ELSE [hi |-> hi, lo |-> lo]

RECURSIVE CrcShifts(_, _)
CrcShifts(c, n) == IF n = 0 THEN c ELSE CrcShifts(CrcShift(c), n - 1)

CrcByte(c, b) == CrcShifts([hi |-> c.hi, lo |-> Xor(c.lo, b, 16)], 8)

\* the loop over the buffer; each byte's value is computed before the next
RECURSIVE CrcBytes(_, _, _)
CrcBytes(c, buf, n) ==
    IF n > Len(buf) THEN c
    ELSE LET d == CrcByte(c, buf[n])
         IN IF d.lo >= 0 THEN CrcBytes(d, buf, n + 1) ELSE d

\* crc32(0, buf, len): initial and final complement
crc32(buf) ==
    LET c == CrcBytes([hi |-> 65535, lo |-> 65535], buf, 1)
    IN [hi |-> 65535 - c.hi, lo |-> 65535 - c.lo]

\* a little-endian load of a 16-bit and of a 32-bit field
Load16(b) == b[1] + 256 * b[2]

Load32(b) == [hi |-> b[3] + 256 * b[4], lo |-> b[1] + 256 * b[2]]

Swap16(x) == (x % 256) * 256 + (x \div 256)

\* htons on the little-endian host: a byte swap
htons(x) == Swap16(x)

\* the bytes from offset 0 up to offsetof(struct var_carrier_eeprom, crc)
BytesBeforeCrc(e) == e.magic \o <<e.struct_ver>> \o e.carrier_rev

\* a magic comparison without the byte swap
MagicMatchesHostOrder(e) == Load16(e.magic) = VAR_CARRIER_EEPROM_MAGIC

\* line 269
MagicMatches(e) == htons(Load16(e.magic)) = VAR_CARRIER_EEPROM_MAGIC

\* line 286: crc != ep->crc, the field loaded in host byte order
CrcMatches(crc, e) == crc = Load32(e.crc)

NoCrc == "uninitialised"

\* lines 265-293
IsValid(e) ==
    IF ~MagicMatches(e)
    THEN [ret |-> 0, crc |-> NoCrc, checks |-> <<"magic">>]
    ELSE IF e.struct_ver < 1
    THEN [ret |-> 0, crc |-> NoCrc, checks |-> <<"magic", "version">>]
    ELSE IF e.struct_ver = 1
    THEN [ret |-> 1, crc |-> NoCrc, checks |-> <<"magic", "version">>]
    ELSE LET crc == crc32(BytesBeforeCrc(e))
         IN [ret |-> IF CrcMatches(crc, e) THEN 1 ELSE 0, crc |-> crc,
             checks |-> <<"magic", "version", "crc">>]

Legacy == <<108, 101, 103, 97, 99, 121>>   \* "legacy"

\* strncpy(dst, src, n): the n bytes written; src is read up to its first NUL
RECURSIVE strncpy(_, _, _)
strncpy(src, n, k) ==
    IF k > n THEN << >>
    ELSE IF k > Len(src) \/ src[k] = 0
    THEN [x \in 1..(n - k + 1) |-> 0]
    ELSE <<src[k]>> \o strncpy(src, n, k + 1)

\* a copy that always takes the stored revision
RevisionSourceStored(ret, e) == e.carrier_rev \o e.crc

\* lines 303-306: the second argument of strncpy; a name longer than the field
\* runs on into the bytes that follow it in the packed struct
RevisionSource(ret, e) ==
    IF ret /= 0 THEN e.carrier_rev \o e.crc ELSE Legacy

CarrierIdle ==
    /\ crc_calc = NoCrc
    /\ valid_ret = Unset
    /\ checks = << >>
    /\ rev = Unset

\* lines 265-293 called on the record
CarrierIsValid ==
    /\ pc = "start"
    /\ LET r == IsValid(cep)
       IN /\ valid_ret' = r.ret
          /\ crc_calc' = r.crc
          /\ checks' = r.checks
    /\ pc' = "valid_done"
    /\ UNCHANGED <<ep, dvars, svars, cep, rev, rev_size>>

\* lines 301-307
CarrierGetRevision ==
    /\ pc = "start"
    /\ LET r == IsValid(cep)
       IN /\ valid_ret' = r.ret
          /\ crc_calc' = r.crc
          /\ checks' = r.checks
          /\ rev' = strncpy(RevisionSource(r.ret, cep), rev_size, 1)
    /\ pc' = "rev_done"
    /\ UNCHANGED <<ep, dvars, svars, cep, rev_size>>

----------------------------------------------------------------------------
(* Inputs of the secondary record *)

\* output buffer sizes the caller passes
MaxRevSize == 9

Pad(text, n) == text \o [x \in 1..(n - Len(text)) |-> 0]

\* "1.4a", the empty text, "legacy" and a name that fills the field
CarrierRevs ==
    {Pad(<<49, 46, 52, 97>>, CARRIER_REV_LEN),
     Pad(<< >>, CARRIER_REV_LEN),
     Pad(Legacy, CARRIER_REV_LEN),
     [x \in 1..CARRIER_REV_LEN |-> 64 + x]}

Magics == {<<86, 67>>, <<67, 86>>, <<0, 0>>}

StructVers == {0, 1, 2, 3}

\* the four bytes of a 32-bit value, most significant first and least first
BytesBE(v) == <<v.hi \div 256, v.hi % 256, v.lo \div 256, v.lo % 256>>

BytesLE(v) == <<v.lo % 256, v.lo \div 256, v.hi % 256, v.hi \div 256>>

CarrierRecords ==
    UNION {LET c == crc32(m \o <<v>> \o r)
           IN {[magic |-> m, struct_ver |-> v, carrier_rev |-> r, crc |-> x] :
                  x \in {BytesBE(c), BytesLE(c), <<0, 0, 0, 0>>}} :
           <<m, v, r>> \in Magics \X StructVers \X CarrierRevs}

FixedEp ==
    [trusted |-> TRUE, version |-> 2, off |-> <<216, 0, 0, 0, 0, 0>>,
     fsp_drate |-> 1866, dramsize |-> 4]

FixedCep ==
    [magic |-> <<0, 0>>, struct_ver |-> 0,
     carrier_rev |-> Pad(<< >>, CARRIER_REV_LEN), crc |-> <<0, 0, 0, 0>>]

----------------------------------------------------------------------------
(* Specifications *)

\* the adjustment engine
Init ==
    /\ pc = "start"
    /\ ep \in [trusted : BOOLEAN, version : Versions, off : OffTables,
               fsp_drate : {1866}, dramsize : {4}]
    /\ dev_present \in BOOLEAN
    /\ EngineIdle
    /\ SizeIdle
    /\ CarrierIdle
    /\ cep = FixedCep
    /\ rev_size = 0

Next ==
    \/ EnterAdjust
    \/ CallAdjustTable
    \/ ProcessRow
    \/ ReturnFromTable
    \/ AdjustFsp

Spec == Init /\ [][Next]_vars

\* the DRAM size accessor
DramSizes == 0..255

InitSize ==
    /\ pc = "start"
    /\ ep \in [trusted : BOOLEAN, version : {2}, off : {<<216, 0, 0, 0, 0, 0>>},
               fsp_drate : {1866}, dramsize : DramSizes]
    /\ dev_present = TRUE
    /\ EngineIdle
    /\ SizeIdle
    /\ CarrierIdle
    /\ cep = FixedCep
    /\ rev_size = 0

NextSize == GetDramSize

SpecSize == InitSize /\ [][NextSize]_vars

\* the secondary record
InitCarrier ==
    /\ pc = "start"
    /\ ep = FixedEp
    /\ dev_present = TRUE
    /\ EngineIdle
    /\ SizeIdle
    /\ CarrierIdle
    /\ cep \in CarrierRecords
    /\ rev_size \in 0..MaxRevSize

NextCarrier ==
    \/ CarrierIsValid
    \/ CarrierGetRevision

SpecCarrier == InitCarrier /\ [][NextCarrier]_vars

----------------------------------------------------------------------------
(* Claims about the adjustment engine *)

Tables == 0..(DRAM_TABLE_NUM - 1)

ReadsOf(t) == {n \in 1..Len(reads) : reads[n].tbl = t}

\* a step of the loop over the adjustment table: one row read and merged
RowStep == pc = "row" /\ i_row' = i_row + 1

\* the entries at or after the cursor whose reg is that of the row in the buffer
Matches(row) == {x \in j..(t_size - 1) : cfg[ti][x].reg = row.reg}

Least(S) == CHOOSE x \in S : \A y \in S : x <= y

\* C1: when the primary record is untrusted, or trusted with version < 2,
\* var_eeprom_adjust_dram returns at once: every row of the five base tables
\* and the three data-rate fields keep their values and no adjustment row is
\* read from the bus.
C1_NoOpBelowVersion2 ==
    (~ep.trusted \/ ep.version < 2) =>
        /\ pc \in {"start", "done"}
        /\ cfg = BaseTables
        /\ fsp = DefaultFsp
        /\ reads = << >>

C1_Witness ==
    /\ pc = "done"
    /\ ep.trusted
    /\ ep.version = 1
    /\ Off(ep, 1) > Off(ep, 0)
    /\ dev_present

\* C2: for a trusted record of version >= 2, off[i+1] == 0 makes table i and
\* every later table skipped: no adjustment row is read for them and their
\* base tables keep their values.
C2_TerminatedTablesSkipped ==
    \A i \in Tables :
        (ep.trusted /\ ep.version >= 2 /\ Off(ep, i + 1) = 0) =>
            \A t \in i..(DRAM_TABLE_NUM - 1) :
                ReadsOf(t) = {} /\ cfg[t] = BaseTables[t]

\* C3: a row processed with the cursor at c, whose reg occurs at some index
\* >= c of the table being scanned, sets the val of the smallest such index
\* to the row's val, changes no other val and no reg, and leaves the cursor
\* on that index; within one table the cursor never decreases.
C3_MatchOverwritesAtCursor ==
    [][RowStep =>
        LET row == adj_table_row'
            M == Matches(row)
        IN /\ j' >= j
           /\ M /= {} =>
                /\ j' = Least(M)
                /\ cfg'[ti][j'].val = row.val
                /\ cfg'[ti][j'].reg = cfg[ti][j'].reg
                /\ \A t \in Tables : \A x \in DOMAIN cfg[t] :
                       (t /= ti \/ x /= j') => cfg'[t][x] = cfg[t][x]]_vars

C3_Witness ==
    /\ pc = "row"
    /\ ti = 0
    /\ i_row = 3
    /\ j = 2
    /\ \A n \in 1..Len(reads) : reads[n].ok
    /\ cfg[0][0].val = eeprom[reads[1].off].val
    /\ cfg[0][2].val = eeprom[reads[3].off].val
    /\ eeprom[reads[2].off].reg = eeprom[reads[3].off].reg
    /\ cfg[0][1].val = BaseVal

\* C4: once a row finds no match between the cursor and the end of the scanned
\* table the cursor is at that end, and while it is there every further row
\* of the table is still read but changes nothing, even when its reg occurs
\* earlier in the table; the call for the next table starts at index 0.
C4_MissDropsRestOfTable ==
    [][/\ RowStep =>
            /\ Len(reads') = Len(reads) + 1
            /\ Matches(adj_table_row') = {} => (j' = t_size /\ cfg' = cfg)
            /\ j = t_size => (j' = t_size /\ cfg' = cfg)
       /\ (pc = "call" /\ ti < DRAM_TABLE_NUM) => j' = 0]_vars

C4_Witness ==
    /\ pc = "row"
    /\ ti = 1
    /\ i_row = 1
    /\ j = 0
    /\ Len(reads) = 3
    /\ \A n \in 1..3 : reads[n].ok
    /\ reads[1].tbl = 0 /\ reads[2].tbl = 0 /\ reads[3].tbl = 1
    /\ eeprom[reads[1].off].reg = 9999
    /\ eeprom[reads[2].off].reg = BaseReg(0, 0)
    /\ cfg[0] = BaseTables[0]
    /\ cfg[1][0].val = eeprom[reads[3].off].val

\* C9: the scan covers the whole base table and the whole adjustment table:
\* the scan ends at cfg_num, the table has (off[i+1] - off[i]) / row_size rows
\* and row k is read at off[i] + k * row_size, whatever the 8-bit parameters.
C9_ScanCoversCallersTable ==
    (pc = "row" /\ ti < NumComputed(ep, 0)) =>
        /\ t_size = CfgNum[ti + 1]
        /\ a_size = CDiv(Off(ep, ti + 1) - Off(ep, ti), RowSize)
        /\ a_off = Off(ep, ti) + i_row * RowSize

\* C10: a failed read of an adjustment row is issued once and the failed row
\* has no effect: no val changes and the cursor does not move (stated for the
\* tables whose size the offset table gives).
C10_FailedReadHasNoEffect ==
    [][(RowStep /\ ~reads'[Len(reads')].ok /\ ti < NumComputed(ep, 0)) =>
            /\ Len(reads') = Len(reads) + 1
            /\ cfg' = cfg
            /\ j' = j]_vars

\* the part of C10 the code keeps: a failed read after a delivered row
C10_StaleRowHasNoEffect ==
    [][(RowStep /\ ~reads'[Len(reads')].ok /\ adj_table_row /= Uninit) =>
            (cfg' = cfg /\ j' = j)]_vars


----------------------------------------------------------------------------
(* Claims about var_eeprom_get_dram_size *)

\* C8: var_eeprom_get_dram_size returns 0 and stores DEFAULT_SDRAM_SIZE when the
\* primary record is untrusted, whatever dramsize is; when trusted it stores
\* dramsize * 128 MiB exactly, with no bit lost, for every dramsize
\* (512 MiB for dramsize = 4).
C8_DramSizeExact ==
    pc = "size_done" =>
        /\ size_ret = 0
        /\ ~ep.trusted => dram_size = DEFAULT_SDRAM_SIZE
        /\ ep.trusted =>
            /\ dram_size[0] = 0
            /\ dram_size[1] + Limb * dram_size[2] = ep.dramsize * 128 * 16
            /\ dram_size[3] = 0

C8_Witness ==
    /\ pc = "size_done"
    /\ ep.trusted
    /\ ep.dramsize = 4
    /\ dram_size = (0 :> 0 @@ 1 :> 8192 @@ 2 :> 0 @@ 3 :> 0)

----------------------------------------------------------------------------
(* Claims about the secondary record *)

MagicOnWire == <<86, 67>>   \* 0x5643 in network byte order

HasNul(buf) == \E k \in 1..Len(buf) : buf[k] = 0

\* the bytes of a buffer before its first NUL (all of them when it has none)
TextOf(buf) ==
    LET n == IF HasNul(buf)
             THEN Least({k \in 1..Len(buf) : buf[k] = 0}) - 1
             ELSE Len(buf)
    IN [k \in 1..n |-> buf[k]]

\* the NUL-terminated text a buffer holds, if it holds one
CString(buf) == IF HasNul(buf) THEN TextOf(buf) ELSE <<-1>>

\* C5: with the right magic and struct_ver >= 2 the record is valid exactly
\* when its crc bytes are the big-endian encoding of the CRC32 of the bytes
\* before the crc field.
C5_CrcInNetworkOrder ==
    (pc = "valid_done" /\ cep.magic = MagicOnWire /\ cep.struct_ver >= 2) =>
        ((valid_ret = 1) <=> (cep.crc = BytesBE(crc32(BytesBeforeCrc(cep)))))

\* C6: a record whose magic bytes are not the constant in network order is
\* invalid on the magic check alone; with the right magic, struct_ver 0 is
\* invalid and struct_ver 1 valid on the version check, whatever the crc
\* bytes and without a checksum being computed.
C6_MagicThenVersion ==
    pc = "valid_done" =>
        /\ cep.magic /= MagicOnWire =>
              (valid_ret = 0 /\ checks = <<"magic">>)
        /\ (cep.magic = MagicOnWire /\ cep.struct_ver = 0) =>
              (valid_ret = 0 /\ checks = <<"magic", "version">>)
        /\ (cep.magic = MagicOnWire /\ cep.struct_ver = 1) =>
              (valid_ret = 1 /\ checks = <<"magic", "version">> /\ crc_calc = NoCrc)

C6_Witness ==
    /\ pc = "valid_done"
    /\ cep.magic = MagicOnWire
    /\ cep.struct_ver = 1
    /\ cep.crc = <<0, 0, 0, 0>>
    /\ valid_ret = 1

=============================================================================
